---------------------------- MODULE Spec2Model ----------------------------
(***************************************************************************)
(* Decision pipeline of the advisory trading strategies                    *)
(* (examples/advisory_trading_strategy_v2.py, _v3.py, _optimized.py):      *)
(* signal aggregation (_combine_signals), the sizing guard (_can_trade),   *)
(* the risk overlay (_should_sell_due_to_risk), the step (next) and the    *)
(* broker callback (notify_order); the signal demo strategy                *)
(* (examples/visory_signal_demo.py); the advisor registry and get_advice   *)
(* (llm_advisory/bt_advisory.py, llm_advisory/llm_advisor.py).             *)
(*                                                                         *)
(* Numbers.  Prices and cash are integers.  Percentages are per-mille      *)
(* (0.04 = 40).  A confidence is in tenths (0.8 = 8), a weight in          *)
(* hundredths (0.25 = 25); a score is confidence * weight * Scale, where   *)
(* Scale makes every discount of the aggregation (x 0.8, x 0.7) exact.     *)
(***************************************************************************)
EXTENDS Integers, Sequences, FiniteSets, TLC

VARIABLES
    variant,              \* which strategy class runs
    started,              \* __init__ has run
    params,               \* self.params: the risk percentages, per mille
    allow_short_selling,  \* params.allow_short_selling (v2 only)
    bars,                 \* len(self.datas[0]), counted up to MaxBars
    raised,               \* the exception that ended the run, or "none"
    cash,                 \* self.broker.cash
    position,             \* self.position.size: 0 flat, > 0 long, < 0 short
    entry_price,          \* self.entry_price
    highest_price,        \* self.highest_price
    order,                \* self.order is not None
    pending,              \* the broker's live order, or NoOrder
    submitted,            \* orders submitted so far (bounded by MaxOrders)
    last,                 \* what the last call of next() read and did
    signals,              \* aggregation input: the list of signals
    volume_confirm,       \* aggregation input: _check_volume_confirmation()
    result,               \* aggregation output, or NoResult
    all_advisors,         \* BacktraderLLMAdvisory.all_advisors
    advisor_names,        \* BacktraderLLMAdvisory.advisor_names
    ret,                  \* what the last call on the advisory returned
    added,                \* the calls of add_advisor so far: (name, advisor)
    LLM_SERVICE_AVAILABLE, \* llm_advisor.LLM_SERVICE_AVAILABLE
    advisories_observer,  \* BacktraderAdvisoryAdvisor.advisories_observer
    advice,               \* what the last update_state analysed and advised
    env,                  \* the environment the LLM services are set up from
    services,             \* the singletons openai_service and ollama_service
    llm_adapter,          \* llm_service_adapter.llm_adapter, or None
    adapter_ret           \* what the last call on the adapter did

vars == << variant, started, params, allow_short_selling, bars, raised,
           cash, position, entry_price, highest_price, order, pending,
           submitted, last, signals, volume_confirm, result,
           all_advisors, advisor_names, ret, added, LLM_SERVICE_AVAILABLE,
           advisories_observer, advice, env, services, llm_adapter,
           adapter_ret >>

stratVars == << variant, started, params, allow_short_selling, bars, raised,
                cash, position, entry_price, highest_price, order, pending,
                submitted, last >>

aggVars == << signals, volume_confirm, result >>

advVars == << all_advisors, advisor_names, ret, added, LLM_SERVICE_AVAILABLE >>

svcVars == << advisories_observer, advice, env, services, llm_adapter,
              adapter_ret >>

----------------------------------------------------------------------------
(* Bounds *)

\* longest signal list given to _combine_signals on its own
MaxSignals == 4
\* longest signal list one step of next() aggregates
MaxStepSignals == 2
\* orders one behaviour may submit
MaxOrders == 4
\* bars of the data feed that are counted: MaxBars stands for MaxBars or more
MaxBars == 26
\* advisors one advisory gets
MaxAdvisors == 3

----------------------------------------------------------------------------
(* Configuration: the params tuples and the literals of the three classes *)

Variants == {"v2", "v3", "opt"}

trade_size == 100
min_trade_value == 1000
\* max_position_ratio = 0.8, in tenths
max_position_ratio == 8

\* signal_confidence_threshold, in thousandths
signal_confidence_threshold(v) ==
    CASE v = "v2" -> 280 [] v = "v3" -> 380 [] OTHER -> 400

\* stop_loss_pct, take_profit_pct, trailing_stop_pct, per mille
stop_loss_pct(v) == IF v = "v2" THEN 40 ELSE 50
take_profit_pct(v) == 120
trailing_stop_pct(v) == IF v = "v2" THEN 25 ELSE 40

\* the params an instance gets when none is overridden
DefaultParams(v) ==
    [stop_loss_pct |-> stop_loss_pct(v), take_profit_pct |-> take_profit_pct(v),
     trailing_stop_pct |-> trailing_stop_pct(v)]

\* the opt class has no risk overlay: next() never calls one
HasRiskOverlay(v) == v \in {"v2", "v3"}

\* signal_weights of _generate_advisory_signal, with the default of
\* weights.get(signal["type"], default) in _combine_signals
signal_weights(v, type) ==
    CASE v = "v2" ->
           ( CASE type = "trend" -> 25 [] type = "rsi" -> 20
               [] type = "macd" -> 15 [] type = "bollinger" -> 10
               [] type = "momentum" -> 10 [] type = "kdj" -> 10
               [] type = "volume" -> 10 [] OTHER -> 10 )
      [] v = "v3" ->
           ( CASE type = "trend" -> 25 [] type = "rsi" -> 15
               [] type = "macd" -> 12 [] type = "bollinger" -> 10
               [] type = "momentum" -> 8 [] type = "obv" -> 12
               [] type = "stoch" -> 8 [] type = "adx" -> 6
               [] type = "ichimoku" -> 4 [] OTHER -> 5 )
      [] OTHER ->
           ( CASE type = "trend" -> 35 [] type = "rsi" -> 20
               [] type = "macd" -> 15 [] type = "bollinger" -> 15
               [] type = "momentum" -> 15 [] OTHER -> 10 )

\* min_votes: the literal 1 of v2/opt, the local min_votes = 2 of v3
min_votes(v) == IF v = "v3" THEN 2 ELSE 1
\* the dominance factor, in tenths: none (1.0) in v2/opt, 1.2 in v3
margin(v) == IF v = "v3" THEN 12 ELSE 10

----------------------------------------------------------------------------
(* Arithmetic *)

RECURSIVE Pow5(_)
Pow5(n) == IF n = 0 THEN 1 ELSE 5 * Pow5(n - 1)

\* one unit of score is 1 / (1000 * Scale); a list of n signals is
\* discounted at most n times by 4/5 and once by 7/10
Scale == 10 * Pow5(MaxSignals)

Abs(n) == IF n < 0 THEN -n ELSE n
Min(a, b) == IF a < b THEN a ELSE b
Max(a, b) == IF a > b THEN a ELSE b

----------------------------------------------------------------------------
(* _combine_signals *)

\* the for loop without the else branch: a neutral signal leaves no entry
RECURSIVE CombineLoop_skip_neutral(_, _, _, _)
CombineLoop_skip_neutral(v, sigs, i, acc) ==
    IF i > Len(sigs) THEN acc
    ELSE
      LET s == sigs[i]
          w == signal_weights(v, s.type)
          bullish == IF v = "v3" THEN s.signal \in {"buy", "trend_strong"}
                                 ELSE s.signal = "buy"
          bearish == s.signal = "sell"
          weak == v = "v3" /\ s.signal = "trend_weak"
          nxt ==
            IF bullish THEN
              [acc EXCEPT !.buy_votes = @ + 1,
                          !.total_buy_confidence = @ + s.confidence * w * Scale,
                          !.reasoning = Append(@, <<s.type, "bullish", s.confidence>>)]
            ELSE IF bearish THEN
              [acc EXCEPT !.sell_votes = @ + 1,
                          !.total_sell_confidence = @ + s.confidence * w * Scale,
                          !.reasoning = Append(@, <<s.type, "bearish", s.confidence>>)]
            ELSE IF weak THEN
              [acc EXCEPT !.total_buy_confidence = (@ * 8) \div 10,
                          !.total_sell_confidence = (@ * 8) \div 10,
                          !.reasoning = Append(@, <<s.type, "weak trend", s.confidence>>)]
            ELSE acc
      IN  CombineLoop_skip_neutral(v, sigs, i + 1, nxt)

\* one pass of the for loop over signals[i..]; acc holds the locals
RECURSIVE CombineLoop(_, _, _, _)
CombineLoop(v, sigs, i, acc) ==
    IF i > Len(sigs) THEN acc
    ELSE
      LET s == sigs[i]
          w == signal_weights(v, s.type)
          bullish == IF v = "v3" THEN s.signal \in {"buy", "trend_strong"}
                                 ELSE s.signal = "buy"
          bearish == s.signal = "sell"
          weak == v = "v3" /\ s.signal = "trend_weak"
          nxt ==
            IF bullish THEN
              [acc EXCEPT !.buy_votes = @ + 1,
                          !.total_buy_confidence = @ + s.confidence * w * Scale,
                          !.reasoning = Append(@, <<s.type, "bullish", s.confidence>>)]
            ELSE IF bearish THEN
              [acc EXCEPT !.sell_votes = @ + 1,
                          !.total_sell_confidence = @ + s.confidence * w * Scale,
                          !.reasoning = Append(@, <<s.type, "bearish", s.confidence>>)]
            ELSE IF weak THEN
              [acc EXCEPT !.total_buy_confidence = (@ * 8) \div 10,
                          !.total_sell_confidence = (@ * 8) \div 10,
                          !.reasoning = Append(@, <<s.type, "weak trend", s.confidence>>)]
            ELSE
              [acc EXCEPT !.reasoning = Append(@, <<s.type, "neutral", s.confidence>>)]
      IN  CombineLoop(v, sigs, i + 1, nxt)

\* the volume confirmation with the sell total alone discounted
VolumeDiscount_sell_only(v, acc, vol) ==
    IF v = "v3" /\ ~vol THEN
      [acc EXCEPT !.total_sell_confidence = (@ * 7) \div 10,
                  !.reasoning = Append(@, <<"volume", "weak confirmation", 0>>)]
    ELSE acc

\* the volume confirmation of v3: both totals x 0.7 when not confirmed
VolumeDiscount(v, acc, vol) ==
    IF v = "v3" /\ ~vol THEN
      [acc EXCEPT !.total_buy_confidence = (@ * 7) \div 10,
                  !.total_sell_confidence = (@ * 7) \div 10,
                  !.reasoning = Append(@, <<"volume", "weak confirmation", 0>>)]
    ELSE acc

\* Decide with the dominance test of the sell branch left out
Decide_no_sell_margin(v, acc) ==
    LET b == acc.total_buy_confidence
        s == acc.total_sell_confidence
        th == signal_confidence_threshold(v) * Scale
    IN  IF acc.buy_votes >= min_votes(v) /\ b > th /\ 10 * b > s * margin(v)
          THEN [signal |-> "buy", confidence |-> b]
        ELSE IF acc.sell_votes >= min_votes(v) /\ s > th
          THEN [signal |-> "sell", confidence |-> s]
        ELSE [signal |-> "none", confidence |-> Max(b, s)]

\* Decide with a dominance test that a tie passes (>= for >)
Decide_tie_wins(v, acc) ==
    LET b == acc.total_buy_confidence
        s == acc.total_sell_confidence
        th == signal_confidence_threshold(v) * Scale
    IN  IF acc.buy_votes >= min_votes(v) /\ b > th /\ 10 * b >= s * margin(v)
          THEN [signal |-> "buy", confidence |-> b]
        ELSE IF acc.sell_votes >= min_votes(v) /\ s > th /\ 10 * s >= b * margin(v)
          THEN [signal |-> "sell", confidence |-> s]
        ELSE [signal |-> "none", confidence |-> Max(b, s)]

\* the if / elif / else that picks final_signal and confidence
Decide(v, acc) ==
    LET b == acc.total_buy_confidence
        s == acc.total_sell_confidence
        th == signal_confidence_threshold(v) * Scale
    IN  IF acc.buy_votes >= min_votes(v) /\ b > th /\ 10 * b > s * margin(v)
          THEN [signal |-> "buy", confidence |-> b]
        ELSE IF acc.sell_votes >= min_votes(v) /\ s > th /\ 10 * s > b * margin(v)
          THEN [signal |-> "sell", confidence |-> s]
        ELSE [signal |-> "none", confidence |-> Max(b, s)]

\* the returned dict, with the locals the claims speak of
_combine_signals(v, sigs, vol) ==
    LET zero == [buy_votes |-> 0, sell_votes |-> 0,
                 total_buy_confidence |-> 0, total_sell_confidence |-> 0,
                 reasoning |-> << >>]
        acc == VolumeDiscount(v, CombineLoop(v, sigs, 1, zero), vol)
        d == Decide(v, acc)
    IN  [signal |-> d.signal, confidence |-> d.confidence,
         reasoning |-> acc.reasoning,
         buy_votes |-> acc.buy_votes, sell_votes |-> acc.sell_votes,
         buy_score |-> acc.total_buy_confidence,
         sell_score |-> acc.total_sell_confidence]

----------------------------------------------------------------------------
(* Inputs *)

\* close prices a bar may show
Prices == {94, 95, 96, 98, 100, 101, 112, 113}
\* prices at which the broker fills an order
FillPrices == {100}
\* broker cash at start (cerebro.broker.setcash)
InitialCash == {0, 1200, 50000}

\* signals handed to _combine_signals: (type, signal, confidence in tenths)
Sig(t, s, c) == [type |-> t, signal |-> s, confidence |-> c]

AggSignals ==
    { Sig("trend", "buy", 10), Sig("trend", "sell", 10),
      Sig("rsi", "buy", 8), Sig("rsi", "sell", 8), Sig("rsi", "none", 3),
      Sig("adx", "trend_strong", 6), Sig("adx", "trend_weak", 1),
      Sig("custom", "buy", 10) }

\* signals one bar's indicators yield in a step of next()
StepSignals == { Sig("trend", "buy", 10), Sig("trend", "sell", 10) }

SeqsUpTo(S, n) == UNION { [1..k -> S] : k \in 0..n }

----------------------------------------------------------------------------
(* Position, orders *)

PosState(size) == IF size = 0 THEN "Flat" ELSE IF size > 0 THEN "Long" ELSE "Short"

NoOrder == [side |-> "none", size |-> 0, status |-> "none"]

\* self.buy(size=n): the order the broker receives
buy(n) == [side |-> "buy", size |-> n, status |-> "Created"]
\* self.sell(size=n): backtrader submits abs(n) units (Strategy.sell)
sell(n) == [side |-> "sell", size |-> Abs(n), status |-> "Created"]

\* the Action a step's order (or its absence) amounts to
ActionOf(pos, ord) ==
    CASE ord.side = "none" -> "Hold"
      [] ord.side = "buy" /\ pos = 0 -> "OpenLong"
      [] ord.side = "sell" /\ pos = 0 -> "OpenShort"
      [] ord.side = "sell" /\ pos > 0 /\ ord.size = pos -> "Close"
      [] ord.side = "buy" /\ pos < 0 /\ ord.size = -pos -> "Close"
      [] ord.side = "sell" /\ pos < 0 -> "IncreaseShort"
      [] OTHER -> "Other"

----------------------------------------------------------------------------
(* _can_trade *)

\* int(self.broker.cash * self.params.max_position_ratio / current_price)
max_shares(csh, price) == (csh * max_position_ratio) \div (price * 10)

\* _can_trade without the test of self.order
_can_trade_no_order_check(v, ord, csh, price) ==
    IF v = "opt"
      THEN IF min_trade_value < price
             THEN max_shares(csh, price) >= 1
             ELSE max_shares(csh, price) * price >= min_trade_value
      ELSE max_shares(csh, price) >= Max(1, min_trade_value \div price)

\* _can_trade that also refuses on the bar after an order was submitted
_can_trade_cooldown(v, ord, csh, price) ==
    IF ord \/ (last.ran /\ last.submit # NoOrder) THEN FALSE
    ELSE IF v = "opt"
      THEN IF min_trade_value < price
             THEN max_shares(csh, price) >= 1
             ELSE max_shares(csh, price) * price >= min_trade_value
      ELSE max_shares(csh, price) >= Max(1, min_trade_value \div price)

_can_trade(v, ord, csh, price) ==
    IF ord THEN FALSE
    ELSE IF v = "opt"
      \* min_shares = min_trade_value / current_price, a float, at least 1
      THEN IF min_trade_value < price
             THEN max_shares(csh, price) >= 1
             ELSE max_shares(csh, price) * price >= min_trade_value
      \* min_shares = max(1, int(min_trade_value / current_price))
      ELSE max_shares(csh, price) >= Max(1, min_trade_value \div price)

----------------------------------------------------------------------------
(* _should_sell_due_to_risk *)

NoRisk(highest) ==
    [sell |-> FALSE, reason |-> "none", consulted |-> << >>, highest |-> highest]

\* _should_sell_due_to_risk with the trailing stop checked before the others
_should_sell_due_to_risk_trailing_first(v, pos, entry, highest, price) ==
    LET h == IF price > highest THEN price ELSE highest
    IN  IF pos = 0 THEN NoRisk(highest)
        ELSE IF price * 1000 <= h * (1000 - params.trailing_stop_pct) THEN
          [sell |-> TRUE, reason |-> "trailing-stop",
           consulted |-> <<"trailing-stop">>, highest |-> h]
        ELSE IF price * 1000 <= entry * (1000 - params.stop_loss_pct) THEN
          [sell |-> TRUE, reason |-> "stop-loss",
           consulted |-> <<"trailing-stop", "stop-loss">>, highest |-> h]
        ELSE
          LET fired == price * 1000 >= entry * (1000 + params.take_profit_pct)
          IN  [sell |-> fired,
               reason |-> IF fired THEN "take-profit" ELSE "none",
               consulted |-> <<"trailing-stop", "stop-loss", "take-profit">>,
               highest |-> h]

\* _should_sell_due_to_risk with a stop-loss that needs the price strictly
\* below the threshold (< for <=)
_should_sell_due_to_risk_strict(v, pos, entry, highest, price) ==
    IF pos = 0 THEN NoRisk(highest)
    ELSE IF price * 1000 < entry * (1000 - params.stop_loss_pct) THEN
      [sell |-> TRUE, reason |-> "stop-loss",
       consulted |-> <<"stop-loss">>, highest |-> highest]
    ELSE IF price * 1000 >= entry * (1000 + params.take_profit_pct) THEN
      [sell |-> TRUE, reason |-> "take-profit",
       consulted |-> <<"stop-loss", "take-profit">>, highest |-> highest]
    ELSE
      LET h == IF price > highest THEN price ELSE highest
          fired == price * 1000 <= h * (1000 - params.trailing_stop_pct)
      IN  [sell |-> fired,
           reason |-> IF fired THEN "trailing-stop" ELSE "none",
           consulted |-> <<"stop-loss", "take-profit", "trailing-stop">>,
           highest |-> h]

\* _should_sell_due_to_risk with highest_price set to the current price
\* whether it is higher or not
_should_sell_due_to_risk_last_price(v, pos, entry, highest, price) ==
    IF pos = 0 THEN NoRisk(highest)
    ELSE IF price * 1000 <= entry * (1000 - params.stop_loss_pct) THEN
      [sell |-> TRUE, reason |-> "stop-loss",
       consulted |-> <<"stop-loss">>, highest |-> highest]
    ELSE IF price * 1000 >= entry * (1000 + params.take_profit_pct) THEN
      [sell |-> TRUE, reason |-> "take-profit",
       consulted |-> <<"stop-loss", "take-profit">>, highest |-> highest]
    ELSE
      LET h == price
          fired == price * 1000 <= h * (1000 - params.trailing_stop_pct)
      IN  [sell |-> fired,
           reason |-> IF fired THEN "trailing-stop" ELSE "none",
           consulted |-> <<"stop-loss", "take-profit", "trailing-stop">>,
           highest |-> h]

\* returns the verdict, the rule that fired, the rules evaluated in order,
\* and self.highest_price as the call leaves it
_should_sell_due_to_risk(v, pos, entry, highest, price) ==
    IF pos = 0 THEN NoRisk(highest)
    ELSE IF price * 1000 <= entry * (1000 - params.stop_loss_pct) THEN
      [sell |-> TRUE, reason |-> "stop-loss",
       consulted |-> <<"stop-loss">>, highest |-> highest]
    ELSE IF price * 1000 >= entry * (1000 + params.take_profit_pct) THEN
      [sell |-> TRUE, reason |-> "take-profit",
       consulted |-> <<"stop-loss", "take-profit">>, highest |-> highest]
    ELSE
      LET h == IF price > highest THEN price ELSE highest
          fired == price * 1000 <= h * (1000 - params.trailing_stop_pct)
      IN  [sell |-> fired,
           reason |-> IF fired THEN "trailing-stop" ELSE "none",
           consulted |-> <<"stop-loss", "take-profit", "trailing-stop">>,
           highest |-> h]

----------------------------------------------------------------------------
(* _generate_advisory_signal *)

\* the bars below which the method returns at once: the literal of
\* "if len(self.datas[0]) < n"
min_lookback(v) == CASE v = "v2" -> 15 [] v = "v3" -> 25 [] OTHER -> 20

\* the dict returned for too few bars
DataInsufficient == [signal |-> "none", confidence |-> 0, reasoning |-> << >>]

\* _generate_advisory_signal on a feed of n bars: the indicator readings of
\* the bar arrive as the signals sigs, which are combined under the class's
\* weights.  Under cerebro next() runs only once every indicator has its
\* minimum period (30 bars and more), so a step finds bars at MaxBars.
_generate_advisory_signal(v, n, sigs, vol) ==
    IF n < min_lookback(v) THEN DataInsufficient
    ELSE _combine_signals(v, sigs, vol)

----------------------------------------------------------------------------
(* next *)

NoStep ==
    [ran |-> FALSE, bars |-> 0, pos |-> 0, order_pending |-> FALSE,
     price |-> 0, cash |-> 0, entry |-> 0, highest |-> 0, can_trade |-> FALSE,
     risk_checked |-> FALSE, consulted |-> << >>, reason |-> "none",
     aggregated |-> FALSE, signal |-> "none", offered |-> "none",
     submit |-> NoOrder, action |-> "Hold", again |-> FALSE]

\* what a call of next() read: the bars so far, the position, self.order,
\* the bar's close, the broker's cash, entry_price and highest_price as the call found them, and what the bar's
\* signals combine to (offered), whether or not the call got to combine them
StepRead(price, sigs, vol) ==
    [NoStep EXCEPT !.ran = TRUE, !.bars = bars, !.pos = position,
                   !.order_pending = order,
                   !.price = price, !.cash = cash,
                   !.entry = entry_price,
                   !.highest = highest_price,
                   !.offered = _generate_advisory_signal(variant, bars, sigs,
                                                        vol).signal]

\* the call reads what the call before it read: the same price, the same
\* signals (a step reads them through their consensus only), the same
\* position, entry_price and highest_price, and the same self.order
Again(read) ==
    /\ last.ran
    /\ read.price = last.price /\ read.offered = last.offered
    /\ read.pos = last.pos /\ read.entry = last.entry
    /\ read.highest = last.highest
    /\ read.order_pending = last.order_pending

\* Decision that opens a short on Sell whether or not short selling is allowed
Decision_short_always(v, short, pos, csh, price, signal) ==
    LET size == Min(trade_size, max_shares(csh, price))
    IN  IF signal = "buy" /\ pos = 0 THEN
          IF size > 0 THEN buy(size) ELSE NoOrder
        ELSE IF signal = "sell" THEN
          IF pos # 0 THEN sell(pos)
          ELSE IF size > 0 THEN sell(size) ELSE NoOrder
        ELSE NoOrder

\* the order the trading decision submits for the combined signal
Decision(v, short, pos, csh, price, signal) ==
    LET size == Min(trade_size, max_shares(csh, price))
    IN  IF signal = "buy" /\ pos = 0 THEN
          IF size > 0 THEN buy(size) ELSE NoOrder
        ELSE IF signal = "sell" THEN
          IF pos # 0 THEN sell(pos)
          ELSE IF v = "v2" /\ short THEN
            IF size > 0 THEN sell(size) ELSE NoOrder
          ELSE NoOrder
        ELSE NoOrder

\* one call of next() on a bar closing at price, whose indicators yield the
\* signals sigs and the volume confirmation vol; the next call finds one bar
\* more
StepOf(price, sigs, vol, observed) ==
    LET read == StepRead(price, sigs, vol)
        can == _can_trade(variant, order, cash, price)
        risk == IF can /\ HasRiskOverlay(variant) /\ position # 0
                  THEN _should_sell_due_to_risk(variant, position, entry_price,
                                                highest_price, price)
                  ELSE NoRisk(highest_price)
        checked == can /\ HasRiskOverlay(variant) /\ position # 0
        combined == _generate_advisory_signal(variant, bars, sigs, vol)
        ord == IF ~can THEN NoOrder
               ELSE IF risk.sell THEN sell(position)
               ELSE Decision(variant, allow_short_selling, position, cash,
                             price, combined.signal)
    IN  /\ started /\ raised = "none"
        /\ submitted < MaxOrders
        /\ highest_price' = risk.highest
        /\ order' = (order \/ ord # NoOrder)
        /\ pending' = IF ord # NoOrder THEN ord ELSE pending
        /\ submitted' = IF ord # NoOrder THEN submitted + 1 ELSE submitted
        /\ last' = [read EXCEPT !.can_trade = can,
                                !.risk_checked = checked,
                                !.consulted = risk.consulted,
                                !.reason = risk.reason,
                                !.aggregated = can /\ ~risk.sell,
                                !.signal = IF can /\ ~risk.sell
                                             THEN combined.signal ELSE "none",
                                !.submit = ord,
                                !.action = ActionOf(position, ord),
                                !.again = observed /\ Again(read)]
        /\ bars' = Min(bars + 1, MaxBars)
        /\ UNCHANGED << variant, started, params, allow_short_selling,
                        raised, cash, position, entry_price, aggVars,
                        advVars, svcVars >>

next(price, sigs, vol) == StepOf(price, sigs, vol, FALSE)

\* next(), with the step record noting whether the call read what the call
\* before it read
next_again(price, sigs, vol) == StepOf(price, sigs, vol, TRUE)

----------------------------------------------------------------------------
(* notify_order *)

\* the statuses notify_order tells apart.  The strategies submit market
\* orders without a validity to the default broker, which reports neither
\* Partial nor Expired for them.
OrderStatuses ==
    {"Submitted", "Accepted", "Completed", "Canceled", "Margin", "Rejected"}

\* the broker's side of a notification: which status it may report for the
\* live order, filled at px when Completed
BrokerReports(st, px) ==
    /\ pending # NoOrder
    /\ CASE st = "Submitted" -> pending.status = "Created"
         [] st = "Accepted" -> pending.status = "Submitted"
         [] st = "Completed" ->
              /\ pending.status = "Accepted"
              /\ pending.side = "buy" => pending.size * px <= cash
         [] st = "Margin" ->
              pending.status # "Created" /\ pending.side = "buy"
         [] OTHER -> pending.status # "Created"

\* the profit of a completed sell is (price - entry_price) / entry_price:
\* v3 computes it for every sell, v2 when the fill leaves a position open
ComputesProfit(v, side, posAfter) ==
    /\ side = "sell"
    /\ v = "v3" \/ (v = "v2" /\ posAfter # 0)

\* notify_order that resets entry_price and highest_price for a failed order
notify_order_clears_on_failure(st, px) ==
    /\ started /\ raised = "none"
    /\ BrokerReports(st, px)
    /\ IF st \in {"Submitted", "Accepted"} THEN
         /\ pending' = [pending EXCEPT !.status = st]
         /\ UNCHANGED << position, cash, entry_price, highest_price, order,
                         raised >>
       ELSE IF st = "Completed" THEN
         /\ position' = IF pending.side = "buy" THEN position + pending.size
                                                ELSE position - pending.size
         /\ cash' = IF pending.side = "buy" THEN cash - pending.size * px
                                            ELSE cash + pending.size * px
         /\ entry_price' = IF pending.side = "buy" /\ HasRiskOverlay(variant)
                             THEN px ELSE entry_price
         /\ highest_price' = IF pending.side = "buy" /\ HasRiskOverlay(variant)
                               THEN px ELSE highest_price
         /\ pending' = NoOrder
         /\ IF ComputesProfit(variant, pending.side, position') /\ entry_price = 0
              \* float division by zero: notify_order does not return
              THEN raised' = "ZeroDivisionError" /\ order' = order
              ELSE raised' = raised /\ order' = FALSE
       ELSE
         /\ order' = FALSE
         /\ pending' = NoOrder
         /\ entry_price' = 0
         /\ highest_price' = 0
         /\ UNCHANGED << position, cash, raised >>
    /\ UNCHANGED << variant, started, params, allow_short_selling, bars,
                    submitted, last, aggVars, advVars, svcVars >>

\* notify_order(order) with order.status = st and order.executed.price = px;
\* the statistics it keeps (trade_count, buy_count, sell_count,
\* successful_trades) are read by stop() only and are left out.  The broker
\* has updated the position and its cash before it notifies.
notify_order(st, px) ==
    /\ started /\ raised = "none"
    /\ BrokerReports(st, px)
    /\ IF st \in {"Submitted", "Accepted"} THEN
         /\ pending' = [pending EXCEPT !.status = st]
         /\ UNCHANGED << position, cash, entry_price, highest_price, order,
                         raised >>
       ELSE IF st = "Completed" THEN
         /\ position' = IF pending.side = "buy" THEN position + pending.size
                                                ELSE position - pending.size
         /\ cash' = IF pending.side = "buy" THEN cash - pending.size * px
                                            ELSE cash + pending.size * px
         /\ entry_price' = IF pending.side = "buy" /\ HasRiskOverlay(variant)
                             THEN px ELSE entry_price
         /\ highest_price' = IF pending.side = "buy" /\ HasRiskOverlay(variant)
                               THEN px ELSE highest_price
         /\ pending' = NoOrder
         /\ IF ComputesProfit(variant, pending.side, position') /\ entry_price = 0
              \* float division by zero: notify_order does not return
              THEN raised' = "ZeroDivisionError" /\ order' = order
              ELSE raised' = raised /\ order' = FALSE
       ELSE
         /\ order' = FALSE
         /\ pending' = NoOrder
         /\ UNCHANGED << position, cash, entry_price, highest_price, raised >>
    /\ UNCHANGED << variant, started, params, allow_short_selling, bars,
                    submitted, last, aggVars, advVars, svcVars >>

----------------------------------------------------------------------------
(* The strategy under a broker: steps and notifications in any order *)

\* no call on the advisory has returned yet
NoReturn == [op |-> "none"]

\* Python's None
None == "None"

NoAdvice == [ran |-> FALSE]

\* no provider configured and nothing reachable
NoEnv == [OPENAI_API_TOKEN |-> FALSE, OPENAI_API_KEY |-> FALSE, ollama_up |-> FALSE]

NoServices == [openai |-> FALSE, ollama |-> FALSE]

\* llm_adapter = None: no adapter has been created
NoAdapter == [provider |-> None, service |-> None]

\* the advisory advisor and the service adapter before any use
IdleServices ==
    /\ advisories_observer = << >>
    /\ advice = NoAdvice
    /\ env = NoEnv
    /\ services = NoServices
    /\ llm_adapter = NoAdapter
    /\ adapter_ret = NoReturn

NoResult ==
    [signal |-> "pending", confidence |-> 0, reasoning |-> << >>,
     buy_votes |-> 0, sell_votes |-> 0, buy_score |-> 0, sell_score |-> 0]

\* __init__, with the broker's cash set before the run
Init ==
    /\ variant \in Variants
    /\ started = TRUE
    /\ params = DefaultParams(variant)
    /\ allow_short_selling \in (IF variant = "v2" THEN BOOLEAN ELSE {FALSE})
    /\ bars = MaxBars
    /\ raised = "none"
    /\ cash \in InitialCash
    /\ position = 0
    /\ entry_price = 0
    /\ highest_price = 0
    /\ order = FALSE
    /\ pending = NoOrder
    /\ submitted = 0
    /\ last = NoStep
    /\ signals = << >>
    /\ volume_confirm = TRUE
    /\ result = NoResult
    /\ all_advisors = << >>
    /\ advisor_names = << >>
    /\ ret = NoReturn
    /\ added = << >>
    /\ LLM_SERVICE_AVAILABLE = FALSE
    /\ IdleServices

Step ==
    \E price \in Prices, sigs \in SeqsUpTo(StepSignals, MaxStepSignals) :
      \E vol \in (IF variant = "v3" THEN BOOLEAN ELSE {TRUE}) :
        next(price, sigs, vol)

Notify == \E st \in OrderStatuses, px \in FillPrices : notify_order(st, px)

Next == Step \/ Notify

Spec == Init /\ [][Next]_vars

\* the same runs, with repeated calls of next() noted in the step record
StepAgain ==
    \E price \in Prices, sigs \in SeqsUpTo(StepSignals, MaxStepSignals) :
      \E vol \in (IF variant = "v3" THEN BOOLEAN ELSE {TRUE}) :
        next_again(price, sigs, vol)

\* long-only instances that can afford a trade
InitRepeat == Init /\ cash \in {1200, 50000} /\ ~allow_short_selling

NextRepeat == StepAgain \/ Notify

SpecRepeat == InitRepeat /\ [][NextRepeat]_vars

----------------------------------------------------------------------------
(* _combine_signals on its own, over every bounded signal list *)

InitAgg ==
    /\ variant \in Variants
    /\ signals \in SeqsUpTo(AggSignals, MaxSignals)
    /\ volume_confirm \in (IF variant = "v3" THEN BOOLEAN ELSE {TRUE})
    /\ result = NoResult
    /\ started = TRUE
    /\ params = DefaultParams(variant)
    /\ allow_short_selling = FALSE
    /\ bars = MaxBars
    /\ raised = "none"
    /\ all_advisors = << >>
    /\ advisor_names = << >>
    /\ ret = NoReturn
    /\ added = << >>
    /\ LLM_SERVICE_AVAILABLE = FALSE
    /\ IdleServices
    /\ cash = 50000
    /\ position = 0
    /\ entry_price = 0
    /\ highest_price = 0
    /\ order = FALSE
    /\ pending = NoOrder
    /\ submitted = 0
    /\ last = NoStep

Combine ==
    /\ result = NoResult
    /\ result' = _combine_signals(variant, signals, volume_confirm)
    /\ UNCHANGED << stratVars, signals, volume_confirm, advVars, svcVars >>

NextAgg == Combine

SpecAgg == InitAgg /\ [][NextAgg]_vars

----------------------------------------------------------------------------
(* Construction: cerebro.addstrategy(cls, **kwargs) and __init__ *)

\* the params an instance may be given: the defaults, or one of the risk
\* percentages overridden by a negative value
ParamChoices(v) ==
    { DefaultParams(v),
      [DefaultParams(v) EXCEPT !.stop_loss_pct = -40],
      [DefaultParams(v) EXCEPT !.take_profit_pct = -120],
      [DefaultParams(v) EXCEPT !.trailing_stop_pct = -25] }

\* __init__: the advisors and indicators are set up, self.order = None,
\* self.entry_price = 0.0, self.highest_price = 0.0; self.params is not
\* looked at
__init__ ==
    /\ ~started
    /\ started' = TRUE
    /\ order' = FALSE
    /\ entry_price' = 0
    /\ highest_price' = 0
    /\ UNCHANGED << variant, params, allow_short_selling, bars, raised, cash,
                    position, pending, submitted, last, aggVars, advVars, svcVars >>

InitConfig ==
    /\ variant \in {"v2", "v3"}
    /\ started = FALSE
    /\ params \in ParamChoices(variant)
    /\ allow_short_selling = FALSE
    /\ bars = MaxBars
    /\ raised = "none"
    /\ cash = 50000
    /\ position = 0
    /\ entry_price = 0
    /\ highest_price = 0
    /\ order = FALSE
    /\ pending = NoOrder
    /\ submitted = 0
    /\ last = NoStep
    /\ signals = << >>
    /\ volume_confirm = TRUE
    /\ result = NoResult
    /\ all_advisors = << >>
    /\ advisor_names = << >>
    /\ ret = NoReturn
    /\ added = << >>
    /\ LLM_SERVICE_AVAILABLE = FALSE
    /\ IdleServices

Construct == __init__

NextConfig == Construct \/ Step \/ Notify

SpecConfig == InitConfig /\ [][NextConfig]_vars

----------------------------------------------------------------------------
(* MultiSingalStrategy (examples/visory_signal_demo.py) *)

\* what the three sources of the demo read off a bar: the moving average
\* cross, the RSI, the price momentum
DemoReadings ==
    { << ma, rsi, mom >> : ma \in {"bullish", "bearish", "neutral"},
                           rsi \in {"bullish", "bearish", "neutral"},
                           mom \in {"bullish", "bearish"} }

Count(seq, x) == Cardinality({ i \in DOMAIN seq : seq[i] = x })

\* MultiSingalStrategy._generate_advisory_signal on a feed of n bars;
\* confidence in thousandths, rounded down
demo_generate_advisory_signal(n, readings) ==
    IF n < min_lookback("demo") THEN
      [signal |-> "none", reasoning |-> "insufficient data"]
    ELSE
      LET sigs == IF n > 3 THEN readings ELSE SubSeq(readings, 1, 2)
          bullish_count == Count(sigs, "bullish")
          bearish_count == Count(sigs, "bearish")
      IN  IF bullish_count > bearish_count THEN
            [signal |-> "buy",
             confidence |-> Min(900, (bullish_count * 1000) \div Len(sigs)),
             reasoning |-> "bullish"]
          ELSE IF bearish_count > bullish_count THEN
            [signal |-> "sell",
             confidence |-> Min(900, (bearish_count * 1000) \div Len(sigs)),
             reasoning |-> "bearish"]
          ELSE [signal |-> "none", confidence |-> 300, reasoning |-> "split"]

\* MultiSingalStrategy.next; buy() and sell() take the default size of 1.
\* signal_history is read by stop() only and is left out.
demo_next(readings) ==
    LET advisory_result == demo_generate_advisory_signal(bars, readings)
        signal == advisory_result.signal
        \* confidence = advisory_result["confidence"]
        KeyError == "confidence" \notin DOMAIN advisory_result
        ord == IF order \/ KeyError THEN NoOrder
               ELSE IF signal = "buy" /\ position = 0 THEN buy(1)
               ELSE IF signal = "sell" /\ position # 0 THEN sell(1)
               ELSE NoOrder
        read == [NoStep EXCEPT !.ran = TRUE, !.bars = bars, !.pos = position,
                               !.order_pending = order, !.cash = cash,
                               !.offered = signal]
    IN  /\ variant = "demo" /\ started /\ raised = "none"
        /\ submitted < MaxOrders
        /\ raised' = IF ~order /\ KeyError THEN "KeyError" ELSE raised
        /\ order' = (order \/ ord # NoOrder)
        /\ pending' = IF ord # NoOrder THEN ord ELSE pending
        /\ submitted' = IF ord # NoOrder THEN submitted + 1 ELSE submitted
        /\ result' = IF order THEN result ELSE advisory_result
        /\ last' = [read EXCEPT !.aggregated = ~order,
                                !.signal = IF order THEN "none" ELSE signal,
                                !.submit = ord,
                                !.action = IF ~order /\ KeyError THEN "Failure"
                                           ELSE ActionOf(position, ord)]
        /\ bars' = Min(bars + 1, MaxBars)
        /\ UNCHANGED << variant, started, params, allow_short_selling, cash,
                        position, entry_price, highest_price, signals,
                        volume_confirm, advVars, svcVars >>

\* the strategy classes called on data feeds of any length, short ones
\* included: cerebro itself calls next() only from the bar on at which every
\* indicator has its minimum period.  No notification arrives here.
Classes == Variants \cup {"demo"}

InitLookback ==
    /\ variant \in Classes
    /\ started = TRUE
    /\ params = DefaultParams(variant)
    /\ allow_short_selling = FALSE
    /\ bars \in 0..MaxBars
    /\ raised = "none"
    /\ cash = 50000
    /\ position = 0
    /\ entry_price = 0
    /\ highest_price = 0
    /\ order = FALSE
    /\ pending = NoOrder
    /\ submitted = 0
    /\ last = NoStep
    /\ signals = << >>
    /\ volume_confirm = TRUE
    /\ result = NoResult
    /\ all_advisors = << >>
    /\ advisor_names = << >>
    /\ ret = NoReturn
    /\ added = << >>
    /\ LLM_SERVICE_AVAILABLE = FALSE
    /\ IdleServices

ClassStep == variant \in Variants /\ Step

DemoStep == \E readings \in DemoReadings : demo_next(readings)

NextLookback == ClassStep \/ DemoStep

SpecLookback == InitLookback /\ [][NextLookback]_vars

----------------------------------------------------------------------------
(* The advisor registry and get_advice (llm_advisory/bt_advisory.py) *)

\* names an advisor may be registered or asked under
Names == {"trend", "technical", "persona"}
\* advisor instances: "llm" keeps LLMAdvisor._update_state, the update_state
\* of "failing" raises
Advisors == {"llm", "failing"}

UpperCase ==
    <<"A", "B", "C", "D", "E", "F", "G", "H", "I", "J", "K", "L", "M",
      "N", "O", "P", "Q", "R", "S", "T", "U", "V", "W", "X", "Y", "Z">>
LowerCase ==
    <<"a", "b", "c", "d", "e", "f", "g", "h", "i", "j", "k", "l", "m",
      "n", "o", "p", "q", "r", "s", "t", "u", "v", "w", "x", "y", "z">>

\* str.lower()
lower(text) ==
    [i \in DOMAIN text |->
       IF \E k \in DOMAIN UpperCase : UpperCase[k] = text[i]
         THEN LowerCase[CHOOSE k \in DOMAIN UpperCase : UpperCase[k] = text[i]]
         ELSE text[i]]

\* word in text, for strings
Contains(text, word) ==
    \E i \in 1..(Len(text) - Len(word) + 1) :
      SubSeq(text, i, i + Len(word) - 1) = word

\* any(word in text for word in words)
ContainsAny(text, words) == \E w \in words : Contains(text, w)

\* the keyword lists of get_advice, as character sequences; a character
\* outside ASCII is written U+xxxx
BullishWords ==
    { <<"b", "u", "l", "l", "i", "s", "h">>,
      <<"b", "u", "y">>,
      <<"U+4E0A", "U+6DA8">>,
      <<"U+770B", "U+6DA8">> }

\* the elif of the bearish keywords
BearishWords ==
    { <<"b", "e", "a", "r", "i", "s", "h">>,
      <<"s", "e", "l", "l">>,
      <<"U+4E0B", "U+8DCC">>,
      <<"U+770B", "U+8DCC">> }

\* the elif of the neutral keywords
NeutralWords ==
    { <<"n", "e", "u", "t", "r", "a", "l">>,
      <<"h", "o", "l", "d">>,
      <<"U+4E2D", "U+6027">> }

\* the content of the fallback message when no LLM service is available
NotConfiguredText ==
    <<"L", "L", "M", " ", "s", "e", "r", "v", "i", "c", "e", " ", "n", "o",
      "t", " ", "c", "o", "n", "f", "i", "g", "u", "r", "e", "d", ".", " ",
      "P", "l", "e", "a", "s", "e", " ", "s", "e", "t", " ", "u", "p", " ",
      "O", "p", "e", "n", "A", "I", " ", "o", "r", " ", "O", "l", "l", "a",
      "m", "a", " ", "s", "e", "r", "v", "i", "c", "e", ".">>

\* f"LLM service error: {str(e)}. Using fallback response."
ErrorPrefix ==
    <<"L", "L", "M", " ", "s", "e", "r", "v", "i", "c", "e", " ", "e", "r",
      "r", "o", "r", ":", " ">>

ErrorSuffix ==
    <<".", " ", "U", "s", "i", "n", "g", " ", "f", "a", "l", "l", "b", "a",
      "c", "k", " ", "r", "e", "s", "p", "o", "n", "s", "e", ".">>

\* the content of the system message get_advice starts from
InitialText ==
    <<"P", "r", "o", "v", "i", "d", "e", " ", "t", "r", "a", "d", "i", "n",
      "g", " ", "a", "d", "v", "i", "c", "e", " ", "b", "a", "s", "e", "d",
      " ", "o", "n", " ", "c", "u", "r", "r", "e", "n", "t", " ", "m", "a",
      "r", "k", "e", "t", " ", "c", "o", "n", "d", "i", "t", "i", "o", "n",
      "s">>

\* texts a language model may answer
LLMAnswers ==
    { <<"B", "U", "Y">>,
      <<"S", "e", "l", "l", " ", "n", "o", "w">>,
      <<"h", "o", "l", "d">>,
      <<"w", "a", "i", "t">> }

\* str(e) of a failed LLM call: the text comes from the failing service
ErrorTexts ==
    { <<"t", "i", "m", "e", "o", "u", "t">>,
      <<"t", "h", "r", "e", "s", "h", "o", "l", "d">> }

\* what the call of the language model does: it answers or it raises
LLMOutcomes ==
    { [kind |-> "answer", text |-> t] : t \in LLMAnswers } \cup
    { [kind |-> "error", text |-> t] : t \in ErrorTexts }

\* LLMAdvisor._update_state: the messages with the response message appended
_update_state(messages, llm) ==
    LET content ==
          IF LLM_SERVICE_AVAILABLE THEN
            IF llm.kind = "answer" THEN llm.text
            ELSE ErrorPrefix \o llm.text \o ErrorSuffix
          ELSE NotConfiguredText
    IN  Append(messages, [role |-> "assistant", content |-> content])

\* the keyword parse of get_advice; confidence in tenths
ParseAdvice(reasoning) ==
    LET text == lower(reasoning)
    IN  IF ContainsAny(text, BullishWords) THEN
          [signal |-> "bullish", confidence |-> 7, reasoning |-> reasoning]
        ELSE IF ContainsAny(text, BearishWords) THEN
          [signal |-> "bearish", confidence |-> 7, reasoning |-> reasoning]
        ELSE IF ContainsAny(text, NeutralWords) THEN
          [signal |-> "neutral", confidence |-> 5, reasoning |-> reasoning]
        ELSE [signal |-> "none", confidence |-> 0, reasoning |-> reasoning]

\* self.advisor_names.get(name)
Lookup(name) ==
    IF name \in DOMAIN advisor_names THEN advisor_names[name] ELSE None

\* add_advisor with the name never recorded
add_advisor_unnamed(name, advisor) ==
    /\ Len(all_advisors) < MaxAdvisors
    /\ all_advisors' = Append(all_advisors, advisor)
    /\ advisor_names' = advisor_names
    /\ added' = Append(added, << name, advisor >>)
    /\ ret' = [op |-> "add_advisor", name |-> name, value |-> None]
    /\ UNCHANGED << stratVars, aggVars, svcVars, LLM_SERVICE_AVAILABLE >>

add_advisor(name, advisor) ==
    /\ Len(all_advisors) < MaxAdvisors
    /\ all_advisors' = Append(all_advisors, advisor)
    /\ advisor_names' =
         [n \in DOMAIN advisor_names \cup {name} |->
            IF n = name THEN advisor ELSE advisor_names[n]]
    /\ added' = Append(added, << name, advisor >>)
    /\ ret' = [op |-> "add_advisor", name |-> name, value |-> None]
    /\ UNCHANGED << stratVars, aggVars, svcVars, LLM_SERVICE_AVAILABLE >>

get_advisor_by_name(name) ==
    /\ ret' = [op |-> "get_advisor_by_name", name |-> name,
               value |-> Lookup(name)]
    /\ UNCHANGED << stratVars, aggVars, svcVars, all_advisors, advisor_names, added,
                    LLM_SERVICE_AVAILABLE >>

\* get_advice(advisor_name), llm being what the language model does when it
\* is called.  cause names what went wrong, if anything did.
get_advice(advisor_name, llm) ==
    LET advisor == Lookup(advisor_name)
        state == << [role |-> "system", content |-> InitialText] >>
        updated == _update_state(state, llm)
        cause ==
          IF advisor = None THEN "missing"
          ELSE IF advisor = "failing" THEN "advisor raised"
          ELSE IF ~LLM_SERVICE_AVAILABLE THEN "no service"
          ELSE IF llm.kind = "error" THEN "llm failed"
          ELSE "none"
        value ==
          IF advisor = None THEN
            [signal |-> "none", reasoning |-> "not found"]
          ELSE IF advisor = "failing" THEN
            \* except Exception as e
            [signal |-> "none", reasoning |-> "Error getting advice"]
          ELSE IF updated # << >> THEN
            ParseAdvice(updated[Len(updated)].content)
          ELSE [signal |-> "none", reasoning |-> "No response from advisor"]
    IN  /\ ret' = [op |-> "get_advice", name |-> advisor_name,
                   cause |-> cause, value |-> value]
        /\ UNCHANGED << stratVars, aggVars, svcVars, all_advisors, advisor_names,
                        added, LLM_SERVICE_AVAILABLE >>

\* BacktraderLLMAdvisory(), in a process where the import of the LLM service
\* adapter succeeded or failed
InitAdvisory ==
    /\ all_advisors = << >>
    /\ advisor_names = << >>
    /\ added = << >>
    /\ ret = NoReturn
    /\ LLM_SERVICE_AVAILABLE \in BOOLEAN
    /\ IdleServices
    /\ variant = "v2"
    /\ started = FALSE
    /\ params = DefaultParams(variant)
    /\ allow_short_selling = FALSE
    /\ bars = 0
    /\ raised = "none"
    /\ cash = 0
    /\ position = 0
    /\ entry_price = 0
    /\ highest_price = 0
    /\ order = FALSE
    /\ pending = NoOrder
    /\ submitted = 0
    /\ last = NoStep
    /\ signals = << >>
    /\ volume_confirm = TRUE
    /\ result = NoResult

AddAdvisor == \E name \in Names, advisor \in Advisors : add_advisor(name, advisor)

GetAdvisorByName == \E name \in Names : get_advisor_by_name(name)

GetAdvice == \E name \in Names, llm \in LLMOutcomes : get_advice(name, llm)

NextAdvisory == AddAdvisor \/ GetAdvisorByName \/ GetAdvice

SpecAdvisory == InitAdvisory /\ [][NextAdvisory]_vars

----------------------------------------------------------------------------
(* BacktraderAdvisoryAdvisor: the advisor that gives the final advice *)

\* the strategy and the aggregator, not in use
IdleStrategy ==
    /\ variant = "v2"
    /\ started = FALSE
    /\ params = DefaultParams(variant)
    /\ allow_short_selling = FALSE
    /\ bars = 0
    /\ raised = "none"
    /\ cash = 0
    /\ position = 0
    /\ entry_price = 0
    /\ highest_price = 0
    /\ order = FALSE
    /\ pending = NoOrder
    /\ submitted = 0
    /\ last = NoStep
    /\ signals = << >>
    /\ volume_confirm = TRUE
    /\ result = NoResult

\* the advisor registry, not in use
IdleAdvisory ==
    /\ all_advisors = << >>
    /\ advisor_names = << >>
    /\ added = << >>
    /\ ret = NoReturn
    /\ LLM_SERVICE_AVAILABLE = FALSE

\* the most entries advisories_observer holds
MaxHistory == 3

\* an entry of the state's signals that is no dict with a "signal" key
NotADict == [isdict |-> FALSE, signal |-> "none", confidence |-> 0]

\* confidences of the directional advisories, in hundredths
AdvisoryConfidences == {30, 62, 90}

\* what new_state["signals"][advisor_name] may hold
Advisories ==
    {[isdict |-> TRUE, signal |-> s, confidence |-> c] :
        s \in {"bullish", "bearish"}, c \in AdvisoryConfidences}
    \cup {[isdict |-> TRUE, signal |-> "neutral", confidence |-> 62],
          [isdict |-> TRUE, signal |-> "none", confidence |-> 30],
          NotADict}

\* the position sizes on the strategy's two data feeds: flat, long, short,
\* hedged and long on both
Portfolios == {<< 0, 0 >>, << 10, 0 >>, << -10, 0 >>, << 10, -10 >>, << 10, 10 >>}

RECURSIVE NetSize(_)
NetSize(positions) ==
    IF positions = << >> THEN 0
    ELSE Head(positions) + NetSize(Tail(positions))

\* PositionDataExtractor.extract: the "Net Position Analysis" artefact
NetPositionAnalysis(positions) ==
    LET open_positions == SelectSeq(positions, LAMBDA size : size # 0)
        net_position_size == NetSize(open_positions)
    IN [net_size |-> net_position_size,
        net_direction |-> IF net_position_size > 0 THEN "Net Long"
                          ELSE IF net_position_size < 0 THEN "Net Short"
                          ELSE "None",
        has_positions |-> Len(open_positions) > 0]

\* the entries the loop of _analyze_advisory_signals_enhanced takes up
IsSignal(advisory_data) == advisory_data.isdict

RECURSIVE SignalCount(_, _)
SignalCount(advisories, signal) ==
    IF advisories = << >> THEN 0
    ELSE (IF IsSignal(Head(advisories)) /\ Head(advisories).signal = signal
          THEN 1 ELSE 0) + SignalCount(Tail(advisories), signal)

RECURSIVE TotalConfidence(_)
TotalConfidence(advisories) ==
    IF advisories = << >> THEN 0
    ELSE (IF IsSignal(Head(advisories)) THEN Head(advisories).confidence
          ELSE 0) + TotalConfidence(Tail(advisories))

\* max(signal_counts.items(), key=count)[0]: the first of bullish, bearish,
\* neutral with the highest count
MaxSignal(bullish_count, bearish_count, neutral_count) ==
    IF bullish_count >= bearish_count /\ bullish_count >= neutral_count
    THEN "bullish"
    ELSE IF bearish_count >= neutral_count THEN "bearish"
    ELSE "neutral"

\* _analyze_advisory_signals_enhanced over the entries of
\* advisories_observer; the average confidence is total_confidence over
\* total_signals, and 0.0 without signals
_analyze_advisory_signals_enhanced(advisories) ==
    LET bullish_count == SignalCount(advisories, "bullish")
        bearish_count == SignalCount(advisories, "bearish")
        neutral_count == SignalCount(advisories, "neutral")
        taken == SelectSeq(advisories, IsSignal)
    IN [consensus |->
            IF Max(bullish_count, Max(bearish_count, neutral_count)) > 0
            THEN MaxSignal(bullish_count, bearish_count, neutral_count)
            ELSE "none",
        total_confidence |-> TotalConfidence(advisories),
        total_signals |-> Len(taken)]

\* average_confidence > percent / 100
AverageAbove(analysis, percent) ==
    IF analysis.total_signals = 0 THEN 0 > percent
    ELSE analysis.total_confidence * 100
            > percent * 100 * analysis.total_signals

\* average_confidence < percent / 100
AverageBelow(analysis, percent) ==
    IF analysis.total_signals = 0 THEN 0 < percent
    ELSE analysis.total_confidence * 100
            < percent * 100 * analysis.total_signals

\* the signal of a 0.65 threshold that is 0.6
_determine_final_advice_one_threshold(analysis, net) ==
    IF ~net.has_positions
    THEN IF analysis.consensus = "bullish" /\ AverageAbove(analysis, 60)
         THEN "buy"
         ELSE IF analysis.consensus = "bearish" /\ AverageAbove(analysis, 60)
         THEN "sell"
         ELSE "none"
    ELSE IF /\ net.net_direction = "Net Long"
            /\ analysis.consensus = "bearish"
            /\ AverageAbove(analysis, 60)
         THEN "close"
         ELSE IF /\ net.net_direction = "Net Short"
                 /\ analysis.consensus = "bullish"
                 /\ AverageAbove(analysis, 60)
         THEN "close"
         ELSE IF /\ net.net_size # 0
                 /\ analysis.consensus \in {"bullish", "bearish"}
                 /\ AverageBelow(analysis, 40)
         THEN "close"
         ELSE "none"

\* _determine_final_advice_enhanced: the signal of the final advice; the
\* thresholds are 0.6 to open, 0.65 to close against the consensus and 0.4
\* to close on a weak consensus
_determine_final_advice_enhanced(analysis, net) ==
    IF ~net.has_positions
    THEN IF analysis.consensus = "bullish" /\ AverageAbove(analysis, 60)
         THEN "buy"
         ELSE IF analysis.consensus = "bearish" /\ AverageAbove(analysis, 60)
         THEN "sell"
         ELSE "none"
    ELSE IF /\ net.net_direction = "Net Long"
            /\ analysis.consensus = "bearish"
            /\ AverageAbove(analysis, 65)
         THEN "close"
         ELSE IF /\ net.net_direction = "Net Short"
                 /\ analysis.consensus = "bullish"
                 /\ AverageAbove(analysis, 65)
         THEN "close"
         ELSE IF /\ net.net_size # 0
                 /\ analysis.consensus \in {"bullish", "bearish"}
                 /\ AverageBelow(analysis, 40)
         THEN "close"
         ELSE "none"

\* init_strategy: a new, empty list is handed to the observer
init_strategy ==
    /\ advisories_observer' = << >>
    /\ UNCHANGED << stratVars, aggVars, advVars, advice, env, services,
                    llm_adapter, adapter_ret >>

\* update_state on a strategy with the given positions.  The artefacts are
\* compiled first: _get_signal_data_enhanced analyses advisories_observer as
\* it is and determines the final advice.  Then the state is updated, and
\* new_state["signals"][advisor_name] is appended, where appended is what it
\* holds, or the lookup raises: the state that LLMAdvisor._update_state
\* returns has no signals.
update_state(positions, appended, raises) ==
    /\ Len(advisories_observer) < MaxHistory
    /\ LET net == NetPositionAnalysis(positions)
           analysis == _analyze_advisory_signals_enhanced(advisories_observer)
       IN advice' = [ran |-> TRUE,
                     read |-> advisories_observer,
                     positions |-> positions,
                     net |-> net,
                     analysis |-> analysis,
                     signal |-> _determine_final_advice_enhanced(analysis, net),
                     raised |-> raises]
    /\ advisories_observer' =
            IF raises THEN advisories_observer
            ELSE Append(advisories_observer, appended)
    /\ UNCHANGED << stratVars, aggVars, advVars, env, services, llm_adapter,
                    adapter_ret >>

InitAdvice ==
    /\ IdleStrategy
    /\ IdleAdvisory
    /\ IdleServices

InitStrategy == init_strategy

UpdateState ==
    \E positions \in Portfolios, appended \in Advisories, raises \in BOOLEAN :
        update_state(positions, appended, raises)

NextAdvice == InitStrategy \/ UpdateState

SpecAdvice == InitAdvice /\ [][NextAdvice]_vars

----------------------------------------------------------------------------
(* LLMServiceAdapter and the global llm_adapter *)

\* the providers callers ask for: the two supported ones, one that is not
\* supported, and None for no argument
Providers == {"openai", "ollama", "azure", None}

\* the environments of the process: whether OPENAI_API_TOKEN and
\* OPENAI_API_KEY are set and whether the Ollama server answers
Environments ==
    [OPENAI_API_TOKEN : BOOLEAN, OPENAI_API_KEY : BOOLEAN, ollama_up : BOOLEAN]

\* _auto_detect_provider: openai when OPENAI_API_TOKEN is set, else ollama,
\* whether or not the Ollama server answers
_auto_detect_provider ==
    IF env.OPENAI_API_TOKEN THEN "openai"
    ELSE IF env.ollama_up THEN "ollama"
    ELSE "ollama"

\* _create_service raises ValueError: for a provider that is neither openai
\* nor ollama, and for openai when OpenAIService() finds no OPENAI_API_KEY
CreateRaises(provider) ==
    \/ provider \notin {"openai", "ollama"}
    \/ provider = "openai" /\ ~services.openai /\ ~env.OPENAI_API_KEY

\* _create_service returns the singleton of the provider
_create_service(provider) == provider

\* the singletons after _create_service: get_openai_service and
\* get_ollama_service create theirs on first use
ServicesAfter(provider) ==
    IF CreateRaises(provider) THEN services
    ELSE [services EXCEPT ![provider] = TRUE]

\* LLMServiceAdapter(provider): the adapter, when _create_service returns
LLMServiceAdapter(provider) ==
    LET chosen == IF provider # None THEN provider ELSE _auto_detect_provider
    IN [provider |-> chosen, service |-> _create_service(chosen)]

\* adapter.switch_provider(provider): the provider is assigned first, then
\* the service is created and assigned, unless _create_service raises
switch_provider(adapter, provider) ==
    [provider |-> provider,
     service |-> IF CreateRaises(provider) THEN adapter.service
                 ELSE _create_service(provider)]

\* get_llm_adapter(provider)
get_llm_adapter(provider) ==
    /\ IF llm_adapter = NoAdapter
       THEN LET chosen == LLMServiceAdapter(provider).provider
            IN /\ llm_adapter' = IF CreateRaises(chosen) THEN NoAdapter
                                 ELSE LLMServiceAdapter(provider)
               /\ services' = ServicesAfter(chosen)
               /\ adapter_ret' = [op |-> "get_llm_adapter", arg |-> provider,
                                  raised |-> CreateRaises(chosen)]
       ELSE IF provider # None /\ provider # llm_adapter.provider
       THEN /\ llm_adapter' = switch_provider(llm_adapter, provider)
            /\ services' = ServicesAfter(provider)
            /\ adapter_ret' = [op |-> "get_llm_adapter", arg |-> provider,
                               raised |-> CreateRaises(provider)]
       ELSE /\ UNCHANGED << llm_adapter, services >>
            /\ adapter_ret' = [op |-> "get_llm_adapter", arg |-> provider,
                               raised |-> FALSE]
    /\ UNCHANGED << stratVars, aggVars, advVars, advisories_observer, advice,
                    env >>

\* llm_adapter.switch_provider(provider), called on the global adapter
SwitchGlobal(provider) ==
    /\ llm_adapter # NoAdapter
    /\ llm_adapter' = switch_provider(llm_adapter, provider)
    /\ services' = ServicesAfter(provider)
    /\ adapter_ret' = [op |-> "switch_provider", arg |-> provider,
                       raised |-> CreateRaises(provider)]
    /\ UNCHANGED << stratVars, aggVars, advVars, advisories_observer, advice,
                    env >>

InitAdapter ==
    /\ IdleStrategy
    /\ IdleAdvisory
    /\ advisories_observer = << >>
    /\ advice = NoAdvice
    /\ env \in Environments
    /\ services = NoServices
    /\ llm_adapter = NoAdapter
    /\ adapter_ret = NoReturn

GetLLMAdapter == \E provider \in Providers : get_llm_adapter(provider)

SwitchProvider == \E provider \in Providers \ {None} : SwitchGlobal(provider)

NextAdapter == GetLLMAdapter \/ SwitchProvider

SpecAdapter == InitAdapter /\ [][NextAdapter]_vars

----------------------------------------------------------------------------
(* Claims about the risk overlay *)

\* the stop-loss and take-profit conditions of a Long position, on what the
\* last step read
StopLossCond == last.price * 1000 <= last.entry * (1000 - params.stop_loss_pct)
TakeProfitCond == last.price * 1000 >= last.entry * (1000 + params.take_profit_pct)

\* a step of a class with a risk overlay, taken with no order outstanding
OverlayStep == last.ran /\ HasRiskOverlay(variant) /\ ~last.order_pending

\* C1: in every step where a Long position is open and the price is at or
\* below entry_price * (1 - stop_loss_pct), the step's action is Close,
\* whatever the step's signals.
C1_RiskPriority ==
    (OverlayStep /\ last.pos > 0 /\ StopLossCond) => last.action = "Close"

\* C2: in every step in which the position is not Flat the risk overlay is
\* evaluated, no earlier check of the step can skip it; and when it forces
\* the exit of a Long position the step emits Close without aggregating.
C2_OverlayFirst ==
    /\ (OverlayStep /\ last.pos # 0) => last.risk_checked
    /\ (OverlayStep /\ last.pos > 0 /\ last.reason # "none")
          => (last.action = "Close" /\ ~last.aggregated)

----------------------------------------------------------------------------
(* Claims about the aggregator *)

Combined == result # NoResult

BuyRule(r) ==
    /\ r.buy_votes >= min_votes(variant)
    /\ r.buy_score > signal_confidence_threshold(variant) * Scale
    /\ 10 * r.buy_score > r.sell_score * margin(variant)

SellRule(r) ==
    /\ r.sell_votes >= min_votes(variant)
    /\ r.sell_score > signal_confidence_threshold(variant) * Scale
    /\ 10 * r.sell_score > r.buy_score * margin(variant)

\* C5: combine returns Buy with confidence buy_score iff the buy rule holds;
\* otherwise Sell with confidence sell_score iff the sell rule holds;
\* otherwise None with confidence max(buy_score, sell_score).
C5_DecisionRule ==
    Combined =>
      /\ result.signal \in {"buy", "sell", "none"}
      /\ (result.signal = "buy") <=> BuyRule(result)
      /\ (result.signal = "sell") <=> (~BuyRule(result) /\ SellRule(result))
      /\ result.signal = "buy" => result.confidence = result.buy_score
      /\ result.signal = "sell" => result.confidence = result.sell_score
      /\ result.signal = "none" =>
           result.confidence = Max(result.buy_score, result.sell_score)

\* Sell is returned although there are buy votes with a score over the
\* threshold: the buy rule failed on dominance alone
C5_Witness ==
    /\ Combined /\ result.signal = "sell"
    /\ result.buy_votes >= min_votes(variant)
    /\ result.buy_score > signal_confidence_threshold(variant) * Scale

\* C6: a signal list with no Bullish and no Bearish signal combines to None
\* with confidence 0.
C6_NoDirectionZero ==
    (Combined /\ \A i \in 1..Len(signals) : signals[i].signal \notin {"buy", "sell"})
      => (result.signal = "none" /\ result.confidence = 0)

\* C7: if buy_score = sell_score the consensus is None.
C7_TieIsNone ==
    (Combined /\ result.buy_score = result.sell_score) => result.signal = "none"

\* a tie in which either side alone has the votes and the score to win
C7_Witness ==
    /\ Combined /\ result.buy_score = result.sell_score
    /\ result.buy_votes >= min_votes(variant)
    /\ result.sell_votes >= min_votes(variant)
    /\ result.buy_score > signal_confidence_threshold(variant) * Scale
    /\ result.signal = "none"

----------------------------------------------------------------------------
(* Claims about the position state machine *)

ShortEnabled == variant = "v2" /\ allow_short_selling

\* C8: from Flat, the sizing guard permitting: Buy opens long; Sell opens
\* short if short selling is enabled and holds otherwise; None holds.  No
\* step opens a position on consensus None.
C8_FlatTable ==
    /\ (last.ran /\ last.pos = 0 /\ last.can_trade) =>
         /\ last.offered = "buy" => last.action = "OpenLong"
         /\ (last.offered = "sell" /\ ShortEnabled) => last.action = "OpenShort"
         /\ (last.offered = "sell" /\ ~ShortEnabled) => last.action = "Hold"
         /\ last.offered = "none" => last.action = "Hold"
    /\ (last.ran /\ last.offered = "none")
         => last.action \notin {"OpenLong", "OpenShort"}

\* Flat, Sell, short selling enabled: the short is opened
C8_Witness ==
    /\ last.ran /\ last.pos = 0 /\ last.can_trade
    /\ last.offered = "sell" /\ ShortEnabled /\ last.action = "OpenShort"

\* C9: in every step where the position is Long and the risk overlay did not
\* force an exit, consensus Sell closes and consensus Buy or None holds,
\* whatever the available cash.
C9_LongTable ==
    (last.ran /\ ~last.order_pending /\ last.pos > 0 /\ last.reason = "none") =>
      /\ last.offered = "sell" => last.action = "Close"
      /\ last.offered \in {"buy", "none"} => last.action = "Hold"

\* C10: in every step where the position is Short and the risk overlay did
\* not force an exit, consensus Buy closes (buys the short back) and
\* consensus Sell or None holds.
C10_ShortTable ==
    (last.ran /\ ~last.order_pending /\ last.pos < 0 /\ last.reason = "none") =>
      /\ last.offered = "buy" => last.action = "Close"
      /\ last.offered \in {"sell", "none"} => last.action = "Hold"

----------------------------------------------------------------------------
(* Claims about a Short position under the risk overlay *)

\* the mirrored conditions of a Short position, on what the last step read
ShortStopLossCond ==
    last.price * 1000 >= last.entry * (1000 + params.stop_loss_pct)
ShortTakeProfitCond ==
    last.price * 1000 <= last.entry * (1000 - params.take_profit_pct)
ShortTrailingCond ==
    last.price * 1000 >= Min(last.highest, last.price) * (1000 + params.trailing_stop_pct)

\* C11: for a Short position the overlay uses the mirrored rules: stop-loss
\* fires iff price >= entry_price * (1 + stop_loss_pct), take-profit iff
\* price <= entry_price * (1 - take_profit_pct), trailing-stop iff
\* price >= extreme_price * (1 + trailing_stop_pct); entry_price is the fill
\* price of the order that opened the short.
C11_ShortMirrored ==
    /\ (position < 0) => entry_price \in FillPrices
    /\ (last.risk_checked /\ last.pos < 0) =>
         /\ (last.reason = "stop-loss") <=> ShortStopLossCond
         /\ (last.reason = "take-profit") <=>
              (~ShortStopLossCond /\ ShortTakeProfitCond)
         /\ (last.reason = "trailing-stop") <=>
              (~ShortStopLossCond /\ ~ShortTakeProfitCond /\ ShortTrailingCond)

----------------------------------------------------------------------------
(* Claims about the sizing guard *)

\* the sizing computation of the step: min(trade_size, max_shares) units
ZeroUnits == Min(trade_size, max_shares(last.cash, last.price)) <= 0

\* the capital a trade may use, cash * max_position_ratio, is below
\* min_trade_value
CapitalInsufficient == last.cash * max_position_ratio < min_trade_value * 10

\* C12: when the sizing computation yields zero tradable units, or capital is
\* insufficient for the minimum trade value, a step from Flat is a Hold; no
\* buy or short-open order is submitted with size 0 or below.
C12_SizingGuard ==
    /\ (last.ran /\ last.pos = 0 /\ (ZeroUnits \/ CapitalInsufficient))
          => last.action = "Hold"
    /\ last.submit # NoOrder => last.submit.size > 0

----------------------------------------------------------------------------
(* Claims about the step as a whole *)

Actions == {"OpenLong", "OpenShort", "Close", "Hold"}

\* C13: every step ends with exactly one Action out of OpenLong, OpenShort,
\* Close, Hold: the one order a step may submit opens or closes a position,
\* and a step that submits no order is a Hold.
C13_OneAction ==
    last.ran =>
      /\ last.action \in Actions
      /\ (last.submit = NoOrder) <=> (last.action = "Hold")

\* a step taken on the inputs of the step before it: the same price, the
\* same signals (the step reads them through their consensus only), the same
\* position, entry_price and highest_price
SameInputs ==
    /\ last.ran /\ last'.ran
    /\ last'.price = last.price /\ last'.offered = last.offered
    /\ last'.pos = last.pos /\ last'.entry = last.entry
    /\ last'.highest = last.highest

----------------------------------------------------------------------------
(* Claims about the advisory *)

\* get_advice has returned, and its source failed: the advisor was missing,
\* the advisor raised, or the call of the language model failed
FailedSource ==
    /\ ret.op = "get_advice"
    /\ ret.cause \in {"missing", "advisor raised", "llm failed"}

\* C15: when an advisor is missing, raises, or its LLM call fails, get_advice
\* does not raise and returns signal "none" with confidence 0.0, never
\* bullish or bearish.
C15_FailOpen ==
    FailedSource =>
      /\ raised = "none"
      /\ ret.value.signal = "none"
      /\ "confidence" \in DOMAIN ret.value
      /\ ret.value.confidence = 0

\* the advisor of the latest add_advisor call under name, None if there is none
RECURSIVE LatestAdded(_, _)
LatestAdded(name, i) ==
    IF i = 0 THEN None
    ELSE IF added[i][1] = name THEN added[i][2]
    ELSE LatestAdded(name, i - 1)

\* C20: after add_advisor(name, advisor), get_advisor_by_name(name) returns
\* that advisor and the advisor is a member of all_advisors; each add_advisor
\* call grows all_advisors by exactly one; get_advisor_by_name of a name
\* never added returns None.
C20_Registry ==
    /\ Len(all_advisors) = Len(added)
    /\ \A i \in 1..Len(added) : all_advisors[i] = added[i][2]
    /\ \A name \in Names : Lookup(name) = LatestAdded(name, Len(added))
    /\ ret.op = "get_advisor_by_name" =>
         ret.value = LatestAdded(ret.name, Len(added))

\* two advisors are registered under two names, as in the test, and the
\* first has just been looked up; a third name, never added, maps to None
C20_Witness ==
    /\ Len(added) = 2 /\ added[1][1] # added[2][1]
    /\ Len(all_advisors) = 2
    /\ ret.op = "get_advisor_by_name" /\ ret.name = added[1][1]
    /\ ret.value = added[1][2]
    /\ \E name \in Names :
         LatestAdded(name, Len(added)) = None /\ Lookup(name) = None

----------------------------------------------------------------------------
(* Claims about short data feeds *)

\* what signal generation returns on a feed of n bars, for every reading of
\* the bar
Generated(n) ==
    IF variant = "demo"
      THEN { demo_generate_advisory_signal(n, r) : r \in DemoReadings }
      ELSE { _generate_advisory_signal(variant, n, sigs, vol) :
               sigs \in SeqsUpTo(StepSignals, MaxStepSignals), vol \in BOOLEAN }

----------------------------------------------------------------------------
(* Claims about the configuration *)

\* a negative stop_loss_pct, take_profit_pct or trailing_stop_pct
InvalidConfig ==
    \/ params.stop_loss_pct < 0
    \/ params.take_profit_pct < 0
    \/ params.trailing_stop_pct < 0

\* C17: an invalid configuration is rejected when the strategy is
\* constructed: construction fails and no step ever runs with it.
C17_ConfigRejected == InvalidConfig => (~started /\ ~last.ran)

----------------------------------------------------------------------------
(* Claims about the position's prices *)

\* C18: while a Long position stays open, highest_price never decreases from
\* one step to the next, whatever the prices; hence the trailing-stop trigger
\* highest_price * (1 - trailing_stop_pct) never decreases either.
C18_TrailingMonotone ==
    [][(position > 0 /\ position' > 0) =>
         /\ highest_price' >= highest_price
         /\ highest_price' * (1000 - params.trailing_stop_pct)
              >= highest_price * (1000 - params.trailing_stop_pct)]_vars

\* a Long position entered at 100 saw 101 and then a lower price, at which
\* the step held: highest_price is still 101
C18_Witness ==
    /\ position > 0 /\ entry_price = 100 /\ highest_price = 101
    /\ last.ran /\ last.pos > 0 /\ last.risk_checked
    /\ last.highest = 101 /\ last.price < 101 /\ last.action = "Hold"

\* entry_price and highest_price start at 0.0 (v2:74-75, v3:59-60) and a fill
\* price is positive: a price is defined when it is not 0
Defined(price) == price # 0

\* C19: in every reachable state entry_price and highest_price are defined
\* if and only if the position is not Flat: they are set when a position
\* opens and cleared when it is closed.
C19_PositionPrices ==
    /\ (position # 0) <=> Defined(entry_price)
    /\ (position # 0) <=> Defined(highest_price)

\* a call of next() has just run (the step record changed) and found a Long
\* position, in a class that keeps highest_price
LongStep == last' # last /\ last'.ran /\ last'.pos > 0 /\ HasRiskOverlay(variant)

\* C21: in every step that finds a Long position open, the update
\* highest_price = max(highest_price, current_price) is performed, whatever
\* the checks of the step decide; so that highest_price is the maximum of
\* the entry price and the prices of all steps since entry.
C21_ExtremeUpdated ==
    [][LongStep => highest_price' = Max(highest_price, last'.price)]_vars

----------------------------------------------------------------------------
(* Claims about the scores and the rationale *)

\* the sum of confidence * weight over the signals of direction dir
RECURSIVE WeightedSum(_, _, _)
WeightedSum(v, sigs, dir) ==
    IF sigs = << >> THEN 0
    ELSE (IF Head(sigs).signal = dir
            THEN Head(sigs).confidence * signal_weights(v, Head(sigs).type) * Scale
            ELSE 0)
         + WeightedSum(v, Tail(sigs), dir)

\* the number of signals of direction dir
Votes(sigs, dir) == Cardinality({ i \in DOMAIN sigs : sigs[i].signal = dir })

\* the factor the volume confirmation applies to both scores afterwards
Confirmed(x) == IF variant = "v3" /\ ~volume_confirm THEN (x * 7) \div 10 ELSE x

\* C22: buy_score is the sum of confidence * weight over exactly the Bullish
\* signals and buy_votes is their count; sell_score and sell_votes are the
\* same over exactly the Bearish signals; a signal of any other direction
\* adds to neither; the weight is the one of the signal's type, the default
\* weight for an unknown type.
C22_Accumulation ==
    Combined =>
      /\ result.buy_votes = Votes(signals, "buy")
      /\ result.sell_votes = Votes(signals, "sell")
      /\ result.buy_score = Confirmed(WeightedSum(variant, signals, "buy"))
      /\ result.sell_score = Confirmed(WeightedSum(variant, signals, "sell"))

\* the result of the same call had the volume been confirmed
Undiscounted == _combine_signals(variant, signals, TRUE)

\* the discount factor of the call, in tenths
Factor == IF variant = "v3" /\ ~volume_confirm THEN 7 ELSE 10

\* C23: the confirmation discount multiplies the final buy_score and
\* sell_score by one and the same factor in (0, 1] (1.0 without the hook);
\* against the undiscounted result it may turn Buy or Sell into None, never
\* None into Buy or Sell, nor Buy into Sell or Sell into Buy.
C23_DiscountOnlyWeakens ==
    Combined =>
      /\ Factor > 0 /\ Factor <= 10
      /\ 10 * result.buy_score = Factor * Undiscounted.buy_score
      /\ 10 * result.sell_score = Factor * Undiscounted.sell_score
      /\ result.signal \in {Undiscounted.signal, "none"}

\* weak volume has turned a Buy into None
C23_Witness ==
    /\ Combined /\ variant = "v3" /\ ~volume_confirm
    /\ Undiscounted.signal = "buy" /\ result.signal = "none"
    /\ result.buy_score > 0

\* entry i of the trail is the entry of signal i: its type and confidence
EntryOf(i) ==
    /\ result.reasoning[i][1] = signals[i].type
    /\ result.reasoning[i][3] = signals[i].confidence

\* C24: the rationale trail of combine holds exactly one entry per input
\* signal, in input order, whatever the consensus: its length is the number
\* of input signals.
C24_OnePerSignal ==
    Combined =>
      /\ Len(result.reasoning) = Len(signals)
      /\ \A i \in DOMAIN signals : EntryOf(i)

\* the call applied the volume discount
Discounted == variant = "v3" /\ ~volume_confirm

\* C24 as amended: the trail holds one entry per input signal, in input
\* order, whatever the consensus, followed by the entry "volume: weak
\* confirmation" exactly when the confirmation discount was applied.
C24_OnePerSignalAndDiscount ==
    Combined =>
      /\ Len(result.reasoning) = Len(signals) + (IF Discounted THEN 1 ELSE 0)
      /\ \A i \in DOMAIN signals : EntryOf(i)
      /\ Discounted =>
           result.reasoning[Len(signals) + 1] = <<"volume", "weak confirmation", 0>>

\* three signals, one of them neutral, combined to None under weak volume:
\* four entries
C24_Witness ==
    /\ Combined /\ Discounted /\ result.signal = "none"
    /\ Len(signals) = 3 /\ Len(result.reasoning) = 4
    /\ \E i \in DOMAIN signals : signals[i].signal = "none"
    /\ \E i \in DOMAIN signals : signals[i].signal = "buy"

----------------------------------------------------------------------------
(* Claims about what a step and a notification may change *)

\* the broker has notified the strategy of its live order
Notified == pending # NoOrder /\ pending' # pending

\* the notification reports the order Completed: the position has changed
CompletedReport ==
    Notified /\ pending.status = "Accepted" /\ position' # position

\* C25: a step never changes the position or entry_price: they change only
\* when a completed order is reported; a Submitted or Accepted notification
\* and a failed order (Canceled, Margin, Rejected) leave entry_price and
\* highest_price unchanged.
C25_OnlyFillsChangePosition ==
    [][/\ (position' # position \/ entry_price' # entry_price)
            => CompletedReport
       /\ (Notified /\ ~CompletedReport)
            => (entry_price' = entry_price /\ highest_price' = highest_price)
      ]_vars

\* a Long position entered at 100 that saw 101: the trailing stop submitted
\* the close, the order failed, and entry_price and highest_price are as
\* they were
C25_Witness ==
    /\ position > 0 /\ ~order /\ pending = NoOrder
    /\ last.ran /\ last.action = "Close" /\ last.pos = position
    /\ last.reason = "trailing-stop"
    /\ entry_price = 100 /\ highest_price = 101

----------------------------------------------------------------------------
(* Claims about the advisory advisor *)

\* the advisories that came in since the analysis of the step before: the
\* one the step before appended
Fresh(read) == IF read = << >> THEN << >> ELSE << read[Len(read)] >>

HasOpen(positions) == \E i \in DOMAIN positions : positions[i] # 0

\* the consensus is against the net direction of the positions
Opposes(consensus, positions) ==
    \/ NetSize(positions) > 0 /\ consensus = "bearish"
    \/ NetSize(positions) < 0 /\ consensus = "bullish"

\* C29: the final advice is consistent with the position.  With no open
\* position it is buy, sell or none, and buy or sell need the matching
\* consensus with an average confidence above 0.6; with an open position it
\* is close or none, and close needs a consensus against the net direction
\* with an average above 0.65, or a directional consensus with an average
\* below 0.4.
C29_AdviceMatchesPosition ==
    advice.ran =>
        LET analysis == advice.analysis
        IN /\ ~HasOpen(advice.positions) =>
                /\ advice.signal \in {"buy", "sell", "none"}
                /\ advice.signal = "buy" =>
                        /\ analysis.consensus = "bullish"
                        /\ AverageAbove(analysis, 60)
                /\ advice.signal = "sell" =>
                        /\ analysis.consensus = "bearish"
                        /\ AverageAbove(analysis, 60)
           /\ HasOpen(advice.positions) =>
                /\ advice.signal \in {"close", "none"}
                /\ advice.signal = "close" =>
                        \/ /\ Opposes(analysis.consensus, advice.positions)
                           /\ AverageAbove(analysis, 65)
                        \/ /\ analysis.consensus \in {"bullish", "bearish"}
                           /\ AverageBelow(analysis, 40)

\* long on one feed, two bearish advisories of 0.9 and 0.62 on record: the
\* advice is to close
C29_Witness ==
    /\ advice.ran
    /\ advice.positions = << 10, 0 >>
    /\ Len(advice.read) = 2
    /\ advice.analysis.consensus = "bearish"
    /\ advice.analysis.total_confidence = 152
    /\ advice.signal = "close"

----------------------------------------------------------------------------
(* Claims about the service adapter *)

\* C30: switching the provider is atomic on error: a call with an
\* unsupported provider raises and leaves the provider and the service of
\* the adapter as they were, so the service of the adapter is always the
\* service of its provider.
C30_ServiceOfProvider ==
    /\ [](llm_adapter.service = llm_adapter.provider)
    /\ [][(adapter_ret'.raised /\ adapter_ret'.arg = "azure")
            => llm_adapter' = llm_adapter]_vars

----------------------------------------------------------------------------
(* Claims about the order of the signals *)

\* the ways to reorder a list of n signals
Reorderings(n) ==
    {p \in [1..n -> 1..n] : \A i, j \in 1..n : p[i] = p[j] => i = j}

Permuted(sigs, p) == [i \in 1..Len(sigs) |-> sigs[p[i]]]

\* C28: the aggregation result is independent of the order of the input
\* signals: every permutation of the list yields the same final signal and
\* the same confidence.
C28_OrderIndependent ==
    Combined =>
        \A p \in Reorderings(Len(signals)) :
            LET other == _combine_signals(variant, Permuted(signals, p),
                                          volume_confirm)
            IN /\ other.signal = result.signal
               /\ other.confidence = result.confidence

----------------------------------------------------------------------------
(* Claims about the order outstanding *)

\* an order has been submitted and has not reached a terminal status
Outstanding == pending # NoOrder

\* the broker reports a terminal status of the live order: Completed,
\* Canceled, Margin or Rejected
TerminalReport == Notified /\ pending' = NoOrder

\* C27: at most one order is outstanding at any time: however steps and
\* notifications interleave, next() submits no order while an order
\* submitted before has not reached a terminal status, self.order stays set
\* for as long, and it is cleared only by the notification of a terminal
\* status.
C27_OneOrderOutstanding ==
    [][/\ submitted' # submitted => ~Outstanding
       /\ pending' # NoOrder => order'
       /\ (order /\ ~order') => TerminalReport
      ]_vars

\* the second order has been accepted and not yet filled, and a step that
\* came in between found self.order set and submitted nothing
C27_Witness ==
    /\ submitted = 2
    /\ order /\ pending.status = "Accepted"
    /\ last.ran /\ ~last.can_trade /\ last.submit = NoOrder

=============================================================================
